---- MODULE Spec2Model ----
(***************************************************************************)
(* Model of sierpinski.py (Python 2): the module-level seed gasket         *)
(* `initial`, Sierpinski_gasket, finegrain and split_triangle, run by an   *)
(* interpreter with an explicit call stack and a heap of gasket objects,   *)
(* so that recursion depth, aliasing and in-place effects are observable.  *)
(*                                                                         *)
(* Numbers.  A Python number is a record [t, a, b, e] that stands for      *)
(* (a + b*sqrt(3)) / 2^e, with t its Python type ("int" or "float").       *)
(* Every value the program computes is of this form.  Floats are modelled  *)
(* by the exact value: np.sqrt(3) by sqrt(3), and the rounding of float    *)
(* addition is left out.                                                   *)
(***************************************************************************)
EXTENDS Integers, Sequences, FiniteSets, TLC

\* Largest order a caller passes to Sierpinski_gasket.
MaxOrder == 3
\* Number of top-level calls a caller makes.
MaxCalls == 3
\* Number of in-place modifications a caller makes to gaskets it was handed.
MaxMutations == 1

(***************************************************************************)
(* Python arithmetic                                                       *)
(***************************************************************************)
RECURSIVE Norm(_, _, _, _)
Norm(t, a, b, e) ==
    IF e > 0 /\ a % 2 = 0 /\ b % 2 = 0
    THEN Norm(t, a \div 2, b \div 2, e - 1)
    ELSE [t |-> t, a |-> a, b |-> b, e |-> e]

\* An int literal, and a float with the value (a + b*sqrt(3)) / 2^e.
IntLit(n) == [t |-> "int", a |-> n, b |-> 0, e |-> 0]
Float(a, b, e) == Norm("float", a, b, e)

\* The type of the result of a binary operator: int only for two ints.
Coerce(u, v) == IF u.t = "int" /\ v.t = "int" THEN "int" ELSE "float"

MaxOf(m, n) == IF m >= n THEN m ELSE n

\* u + v
Add(u, v) ==
    LET E == MaxOf(u.e, v.e)
    IN  Norm(Coerce(u, v),
             u.a * 2^(E - u.e) + v.a * 2^(E - v.e),
             u.b * 2^(E - u.e) + v.b * 2^(E - v.e), E)

\* u - v
Sub(u, v) ==
    LET E == MaxOf(u.e, v.e)
    IN  Norm(Coerce(u, v),
             u.a * 2^(E - u.e) - v.a * 2^(E - v.e),
             u.b * 2^(E - u.e) - v.b * 2^(E - v.e), E)

\* u * v, with sqrt(3) * sqrt(3) = 3
Mul(u, v) ==
    Norm(Coerce(u, v), u.a * v.a + 3 * u.b * v.b, u.a * v.b + u.b * v.a, u.e + v.e)

RECURSIVE Log2(_)
Log2(k) == IF k <= 1 THEN 0 ELSE 1 + Log2(k \div 2)

\* u / k for an int literal k that is a power of two (the program divides by
\* 2 and by 4 only).  Python 2 without `from __future__ import division`:
\* int / int is the floor division, anything else the true division.
Div(u, k) ==
    IF u.t = "int" /\ k.t = "int"
    THEN IntLit(u.a \div k.a)
    ELSE Norm("float", u.a, u.b, u.e + Log2(k.a))

\* u == v in Python: by value, an int equals the float of the same value.
NumEq(u, v) == u.a = v.a /\ u.b = v.b /\ u.e = v.e

\* np.sqrt(3)
Sqrt3 == Float(0, 1, 0)

(***************************************************************************)
(* The program's functions on gasket values                                *)
(***************************************************************************)
\* initial = {'centers':[(0, 0),], 'radius':1.0}
initialIntRadius == [centers |-> << <<IntLit(0), IntLit(0)>> >>, radius |-> IntLit(1)]
initial == [centers |-> << <<IntLit(0), IntLit(0)>> >>, radius |-> Float(1, 0, 0)]

split_triangleMirrored(center, radius) ==
    << <<center[1], Add(center[2], Div(radius, IntLit(2)))>>,
       <<Add(center[1], Div(Mul(Sqrt3, radius), IntLit(4))),
         Sub(center[2], Div(radius, IntLit(4)))>>,
       <<Add(center[1], Div(Mul(Sqrt3, radius), IntLit(4))),
         Sub(center[2], Div(radius, IntLit(4)))>> >>
split_triangleSwapped(center, radius) ==
    << <<center[1], Add(center[2], Div(radius, IntLit(2)))>>,
       <<Sub(center[1], Div(Mul(Sqrt3, radius), IntLit(4))),
         Sub(center[2], Div(radius, IntLit(4)))>>,
       <<Add(center[1], Div(Mul(Sqrt3, radius), IntLit(4))),
         Sub(center[2], Div(radius, IntLit(4)))>> >>
split_triangleFour(center, radius) ==
    << <<center[1], Add(center[2], Div(radius, IntLit(2)))>>,
       <<Add(center[1], Div(Mul(Sqrt3, radius), IntLit(4))),
         Sub(center[2], Div(radius, IntLit(4)))>>,
       <<Sub(center[1], Div(Mul(Sqrt3, radius), IntLit(4))),
         Sub(center[2], Div(radius, IntLit(4)))>>,
       <<center[1], center[2]>> >>
split_triangle(center, radius) ==
    << <<center[1], Add(center[2], Div(radius, IntLit(2)))>>,
       <<Add(center[1], Div(Mul(Sqrt3, radius), IntLit(4))),
         Sub(center[2], Div(radius, IntLit(4)))>>,
       <<Sub(center[1], Div(Mul(Sqrt3, radius), IntLit(4))),
         Sub(center[2], Div(radius, IntLit(4)))>> >>

\* [newcenter for center in centers for newcenter in split_triangle(center, radius)]
\* The list is built by halves, left before right, to keep the evaluation
\* shallow on long lists.
RECURSIVE new_centers(_, _)
new_centers(centers, radius) ==
    LET n == Len(centers)
    IN  IF n = 0 THEN <<>>
        ELSE IF n = 1 THEN split_triangle(centers[1], radius)
        ELSE new_centers(SubSeq(centers, 1, n \div 2), radius)
                 \o new_centers(SubSeq(centers, (n \div 2) + 1, n), radius)

new_radius(gasket) == Div(gasket.radius, IntLit(2))

\* The dict finegrain returns, as a value.
finegrain(gasket) ==
    [centers |-> new_centers(gasket.centers, gasket.radius),
     radius |-> new_radius(gasket)]

\* == on gasket dicts: lists of the same length with equal tuples, equal radii.
GasketEq(g, h) ==
    /\ Len(g.centers) = Len(h.centers)
    /\ \A i \in 1..Len(g.centers) :
          /\ NumEq(g.centers[i][1], h.centers[i][1])
          /\ NumEq(g.centers[i][2], h.centers[i][2])
    /\ NumEq(g.radius, h.radius)

(***************************************************************************)
(* The values a caller passes as `order`.  [t, v]: t is the Python type,   *)
(* v the value for int, long and bool, twice the value for float (so that  *)
(* 2.5 is [float, 5]), and unused for str and NoneType.                    *)
(***************************************************************************)
PyInt(n) == [t |-> "int", v |-> n]
Orders ==
    {PyInt(n) : n \in -1..MaxOrder}
      \cup {[t |-> "long", v |-> 2], [t |-> "bool", v |-> 1],
            [t |-> "float", v |-> 5], [t |-> "float", v |-> 2],
            [t |-> "str", v |-> 0], [t |-> "NoneType", v |-> 0]}

\* order < 0.  Python 2 orders values of different types: None is smaller
\* than every number, a str larger.
LessThanZero(order) ==
    CASE order.t = "NoneType" -> TRUE
      [] order.t = "str" -> FALSE
      [] OTHER -> order.v < 0

\* isinstance(order, (int, long)); bool is a subclass of int.
IsInstanceIntLongFloat(order) == order.t \in {"int", "long", "bool", "float"}
IsInstanceIntLong(order) == order.t \in {"int", "long", "bool"}

\* order == 0
EqualsZeroOrOne(order) ==
    order.t \in {"int", "long", "bool", "float"} /\ order.v \in {0, 1}
EqualsZero(order) == order.t \in {"int", "long", "bool", "float"} /\ order.v = 0

\* order - 1; bool - int is an int.
OrderMinusTwo(order) ==
    CASE order.t = "float" -> [t |-> "float", v |-> order.v - 4]
      [] order.t = "bool" -> [t |-> "int", v |-> order.v - 2]
      [] OTHER -> [t |-> order.t, v |-> order.v - 2]
OrderMinusOne(order) ==
    CASE order.t = "float" -> [t |-> "float", v |-> order.v - 2]
      [] order.t = "bool" -> [t |-> "int", v |-> order.v - 1]
      [] OTHER -> [t |-> order.t, v |-> order.v - 1]

(***************************************************************************)
(* State                                                                   *)
(***************************************************************************)
VARIABLES
    heap,      \* the gasket objects (dict with its list), by reference 1..Len(heap)
    stack,     \* frames of Sierpinski_gasket, innermost last: [order, pc]
    ret,       \* the value or exception the innermost finished call hands back
    cur,       \* history of the top-level call in progress
    log,       \* history of the finished top-level calls, oldest first
    mutations  \* number of in-place modifications the caller has made

vars == <<heap, stack, ret, cur, log, mutations>>

\* The reference of the module-level dict `initial`.
InitialRef == 1

NoRef == 0
NoGasket == [centers |-> <<>>, radius |-> IntLit(0)]
NoOrder == [t |-> "NoneType", v |-> 0]
NoRet == [kind |-> "none", ref |-> NoRef]
NoCur == [order |-> NoOrder, calls |-> <<>>, fgs |-> 0, bases |-> <<>>, depth |-> 0]

Init ==
    /\ heap = <<initial>>
    /\ stack = <<>>
    /\ ret = NoRet
    /\ cur = NoCur
    /\ log = <<>>
    /\ mutations = 0

Idle == stack = <<>> /\ ret.kind = "none"
Top == stack[Len(stack)]
Pop(s) == SubSeq(s, 1, Len(s) - 1)

(***************************************************************************)
(* Sierpinski_gasket, one step per branch                                  *)
(***************************************************************************)
\* The caller evaluates Sierpinski_gasket(order).
CallGasket(order) ==
    /\ Idle
    /\ stack' = <<[order |-> order, pc |-> "entry"]>>
    /\ cur' = [order |-> order, calls |-> <<>>, fgs |-> 0, bases |-> <<>>, depth |-> 1]
    /\ UNCHANGED <<heap, ret, log, mutations>>

\* if order < 0 or not isinstance(order, (int, long)): raise TypeError
\* Nothing catches the exception: it unwinds every frame.
RaisesTypeError(order) == LessThanZero(order) \/ ~IsInstanceIntLong(order)
GasketRaise ==
    /\ stack # <<>>
    /\ Top.pc = "entry"
    /\ RaisesTypeError(Top.order)
    /\ stack' = <<>>
    /\ ret' = [kind |-> "TypeError", ref |-> NoRef]
    /\ UNCHANGED <<heap, cur, log, mutations>>

\* elif order == 0: return initial
ReturnOfOrderZero(h) == [heap |-> h, ref |-> InitialRef]
GasketBase ==
    /\ stack # <<>>
    /\ Top.pc = "entry"
    /\ ~RaisesTypeError(Top.order)
    /\ EqualsZero(Top.order)
    /\ LET r == ReturnOfOrderZero(heap)
       IN  /\ heap' = r.heap
           /\ ret' = [kind |-> "value", ref |-> r.ref]
    /\ stack' = Pop(stack)
    /\ cur' = [cur EXCEPT !.bases = Append(@, Top.order)]
    /\ UNCHANGED <<log, mutations>>

\* else: ... Sierpinski_gasket(order - 1): the recursive call is entered.
GasketRecurse ==
    /\ stack # <<>>
    /\ Top.pc = "entry"
    /\ ~RaisesTypeError(Top.order)
    /\ ~EqualsZero(Top.order)
    /\ LET arg == OrderMinusOne(Top.order)
       IN  /\ stack' = Append([stack EXCEPT ![Len(stack)].pc = "called"],
                              [order |-> arg, pc |-> "entry"])
           /\ cur' = [cur EXCEPT !.calls = Append(@, arg),
                                 !.depth = MaxOf(@, Len(stack) + 1)]
    /\ UNCHANGED <<heap, ret, log, mutations>>

\* finegrain(gasket) on the heap: the comprehension builds a new list and
\* the dict display a new dict; the argument is only read.
FinegrainInPlace(h, ref) ==
    [heap |-> [h EXCEPT ![ref] = finegrain(h[ref])], ref |-> ref]
FinegrainHalvesArgument(h, ref) ==
    [heap |-> Append([h EXCEPT ![ref].radius = new_radius(h[ref])], finegrain(h[ref])),
     ref |-> Len(h) + 1]
FinegrainCall(h, ref) ==
    [heap |-> Append(h, finegrain(h[ref])), ref |-> Len(h) + 1]

\* else: return finegrain(<the value the recursive call returned>)
GasketFinegrain ==
    /\ stack # <<>>
    /\ Top.pc = "called"
    /\ ret.kind = "value"
    /\ LET r == FinegrainCall(heap, ret.ref)
       IN  /\ heap' = r.heap
           /\ ret' = [kind |-> "value", ref |-> r.ref]
    /\ stack' = Pop(stack)
    /\ cur' = [cur EXCEPT !.fgs = @ + 1]
    /\ UNCHANGED <<log, mutations>>

\* The top-level call is over: the caller holds the result, or sees the
\* exception.
CallerReceives ==
    /\ stack = <<>>
    /\ ret.kind # "none"
    /\ log' = Append(log,
                 [op |-> "Sierpinski_gasket", order |-> cur.order,
                  exc |-> IF ret.kind = "value" THEN "none" ELSE ret.kind,
                  ref |-> ret.ref,
                  val |-> IF ret.kind = "value" THEN heap[ret.ref] ELSE NoGasket,
                  arg |-> NoRef, argval |-> NoGasket,
                  calls |-> cur.calls, fgs |-> cur.fgs, bases |-> cur.bases,
                  depth |-> cur.depth])
    /\ ret' = NoRet
    /\ cur' = NoCur
    /\ UNCHANGED <<heap, stack, mutations>>

\* The caller evaluates finegrain(g) for a gasket g it was handed earlier.
CallFinegrain(i) ==
    /\ Idle
    /\ log[i].exc = "none"
    /\ LET r == FinegrainCall(heap, log[i].ref)
       IN  /\ heap' = r.heap
           /\ log' = Append(log,
                        [op |-> "finegrain", order |-> NoOrder, exc |-> "none",
                         ref |-> r.ref, val |-> r.heap[r.ref],
                         arg |-> log[i].ref, argval |-> heap[log[i].ref],
                         calls |-> <<>>, fgs |-> 1, bases |-> <<>>, depth |-> 0])
    /\ UNCHANGED <<stack, ret, cur, mutations>>

\* The caller modifies a gasket it was handed: g['radius'] = 2.0, or
\* g['centers'].append((1, 1)).
SetRadius(g) == [g EXCEPT !.radius = Float(2, 0, 0)]
AppendCenter(g) == [g EXCEPT !.centers = Append(@, <<IntLit(1), IntLit(1)>>)]
CallerMutates(i) ==
    /\ Idle
    /\ log[i].exc = "none"
    /\ \E g \in {SetRadius(heap[log[i].ref]), AppendCenter(heap[log[i].ref])} :
          heap' = [heap EXCEPT ![log[i].ref] = g]
    /\ mutations' = mutations + 1
    /\ UNCHANGED <<stack, ret, cur, log>>

Run == GasketRaise \/ GasketBase \/ GasketRecurse \/ GasketFinegrain \/ CallerReceives

\* Largest list the caller of Next hands to finegrain directly.
MaxCenters == 3 ^ (MaxOrder - 1)

Next ==
    \/ \E order \in Orders : Len(log) < MaxCalls /\ CallGasket(order)
    \/ \E i \in 1..Len(log) :
          /\ Len(log) < MaxCalls
          /\ log[i].exc = "none"
          /\ Len(heap[log[i].ref].centers) <= MaxCenters
          /\ CallFinegrain(i)
    \/ GasketRaise
    \/ GasketBase
    \/ GasketRecurse
    \/ GasketFinegrain
    \/ CallerReceives

\* A caller that only calls Sierpinski_gasket and finegrain.
Spec == Init /\ [][Next]_vars

NextMut ==
    \/ Next
    \/ \E i \in 1..Len(log) : mutations < MaxMutations /\ CallerMutates(i)

\* A caller that also modifies the gaskets it was handed.
SpecMut == Init /\ [][NextMut]_vars

\* The orders N of the series g = Sierpinski_gasket(N); f = finegrain(g);
\* h = Sierpinski_gasket(N + 1); with N = -1 the first call raises and the
\* series ends there.
SeriesOrders == -1..6

NextSeries ==
    \/ \E n \in SeriesOrders : log = <<>> /\ CallGasket(PyInt(n))
    \/ Len(log) = 1 /\ CallFinegrain(1)
    \/ Len(log) = 2 /\ CallGasket(PyInt(log[1].order.v + 1))
    \/ GasketRaise
    \/ GasketBase
    \/ GasketRecurse
    \/ GasketFinegrain
    \/ CallerReceives

\* The caller that runs the series for one N.
SpecSeries == Init /\ [][NextSeries]_vars

\* A caller that evaluates Sierpinski_gasket(a) and then Sierpinski_gasket(b).
NextPair ==
    \/ \E order \in Orders : Len(log) < 2 /\ CallGasket(order)
    \/ GasketRaise
    \/ GasketBase
    \/ GasketRecurse
    \/ GasketFinegrain
    \/ CallerReceives

\* The interpreter is synchronous: it runs a call it has started to its end.
FairPair == Init /\ [][NextPair]_vars /\ WF_vars(Run)

TypeOK ==
    /\ Len(heap) >= 1
    /\ Len(log) <= MaxCalls
    /\ ret.kind \in {"none", "value", "TypeError"}

(***************************************************************************)
(* Properties                                                              *)
(***************************************************************************)
\* A non-negative integer: an int, a long or a bool (True is 1) that is >= 0.
IsNonNegativeInteger(order) == order.t \in {"int", "long", "bool"} /\ order.v >= 0

Entries == 1..Len(log)
\* The finished top-level calls of Sierpinski_gasket, and those that returned.
GasketCalls == {i \in Entries : log[i].op = "Sierpinski_gasket"}
GasketResults == {i \in GasketCalls : log[i].exc = "none"}
\* The finished direct calls of finegrain.
FinegrainCalls == {i \in Entries : log[i].op = "finegrain"}

\* The seed and the first-order gasket, written out.
SeedGasket == [centers |-> << <<IntLit(0), IntLit(0)>> >>, radius |-> Float(1, 0, 0)]
FirstGasket ==
    [centers |-> << <<IntLit(0), Float(1, 0, 1)>>,
                    <<Float(0, 1, 2), Float(-1, 0, 2)>>,
                    <<Float(0, -1, 2), Float(-1, 0, 2)>> >>,
     radius |-> Float(1, 0, 1)]

\* C1: Sierpinski_gasket(order) returns exactly 3^order centers for every
\* non-negative integer order, and finegrain returns exactly three times as
\* many centers as its argument has.
C1_CenterCount ==
    /\ \A i \in GasketCalls :
          IsNonNegativeInteger(log[i].order) =>
             /\ log[i].exc = "none"
             /\ Len(log[i].val.centers) = 3 ^ log[i].order.v
    /\ \A i \in FinegrainCalls :
          Len(log[i].val.centers) = 3 * Len(log[i].argval.centers)

C1_Witness ==
    /\ \E i \in GasketResults : log[i].order.v >= 2
    /\ \E i \in FinegrainCalls : Len(log[i].argval.centers) >= 3

\* C2: the radius of Sierpinski_gasket(order) is the float 1.0 / 2^order, and
\* finegrain returns a float radius that is exactly half its argument's
\* radius (twice the result is the argument's radius).
C2_Radius ==
    /\ \A i \in GasketResults : log[i].val.radius = Float(1, 0, log[i].order.v)
    /\ \A i \in FinegrainCalls :
          /\ log[i].val.radius.t = "float"
          /\ NumEq(Add(log[i].val.radius, log[i].val.radius), log[i].argval.radius)

C2_Witness ==
    /\ \E i \in GasketResults : log[i].order.v >= 2 /\ log[i].val.radius.e >= 2
    /\ \E i \in FinegrainCalls : log[i].argval.radius.e >= 1

\* C3: Sierpinski_gasket(order) with an order that is not a non-negative
\* integer raises TypeError at the top-level call: no recursive call and no
\* finegrain call is made, and no gasket is returned.
C3_InvalidOrderRaises ==
    /\ \A i \in GasketCalls :
          ~IsNonNegativeInteger(log[i].order) =>
             /\ log[i].exc = "TypeError"
             /\ log[i].ref = NoRef
             /\ log[i].calls = <<>>
             /\ log[i].fgs = 0
             /\ log[i].bases = <<>>
             /\ log[i].depth = 1
    /\ (cur.depth > 0 /\ ~IsNonNegativeInteger(cur.order)) =>
          /\ Len(stack) <= 1
          /\ cur.calls = <<>>
          /\ cur.fgs = 0
          /\ cur.bases = <<>>
          /\ ret.kind # "value"

C3_Witness ==
    /\ \E i \in GasketCalls : log[i].order = PyInt(-1) /\ log[i].exc = "TypeError"
    /\ \E i \in GasketCalls : log[i].order.t = "float" /\ log[i].exc = "TypeError"
    /\ \E i \in GasketCalls : log[i].order.t = "str" /\ log[i].exc = "TypeError"

\* C4: finegrain replaces the i-th center (x, y) of a gasket of radius r by
\* (x, y + r/2), (x + sqrt(3)*r/4, y - r/4), (x - sqrt(3)*r/4, y - r/4) at
\* the places 3i-2, 3i-1, 3i of its result (i from 1), and
\* Sierpinski_gasket(1) is [(0, 0.5), (sqrt(3)/4, -0.25), (-sqrt(3)/4, -0.25)]
\* with radius 0.5.
PointEq(p, q) == NumEq(p[1], q[1]) /\ NumEq(p[2], q[2])
Half(r) == Float(r.a, r.b, r.e + 1)
Quarter(r) == Float(r.a, r.b, r.e + 2)
Sqrt3Quarter(r) == Float(3 * r.b, r.a, r.e + 2)
C4_ChildrenInOrder ==
    /\ \A i \in FinegrainCalls :
          LET in == log[i].argval
              out == log[i].val.centers
          IN  /\ Len(out) = 3 * Len(in.centers)
              /\ \A k \in 1..Len(in.centers) :
                    LET x == in.centers[k][1]
                        y == in.centers[k][2]
                    IN  /\ PointEq(out[3 * k - 2], <<x, Add(y, Half(in.radius))>>)
                        /\ PointEq(out[3 * k - 1],
                                   <<Add(x, Sqrt3Quarter(in.radius)),
                                     Sub(y, Quarter(in.radius))>>)
                        /\ PointEq(out[3 * k],
                                   <<Sub(x, Sqrt3Quarter(in.radius)),
                                     Sub(y, Quarter(in.radius))>>)
    /\ \A i \in GasketResults : log[i].order.v = 1 => GasketEq(log[i].val, FirstGasket)

C4_Witness ==
    /\ \E i \in FinegrainCalls : Len(log[i].argval.centers) >= 3
    /\ \E i \in GasketResults : log[i].order.v = 1

\* C5: finegrain applied to the result of Sierpinski_gasket(N) equals the
\* result of Sierpinski_gasket(N + 1): the same centers in the same order
\* and the same radius.
C5_FinegrainOfOrderIsNextOrder ==
    \A i \in FinegrainCalls : \A j \in GasketResults : \A k \in GasketResults :
        (/\ j < i
         /\ log[i].arg = log[j].ref
         /\ log[k].order.v = log[j].order.v + 1)
        => GasketEq(log[i].val, log[k].val)

C5_Witness ==
    \E i \in FinegrainCalls : \E j \in GasketResults : \E k \in GasketResults :
        /\ j < i
        /\ log[i].arg = log[j].ref
        /\ k > i
        /\ log[j].order.v = 6
        /\ log[k].order.v = 7
        /\ Len(log[k].val.centers) = 3 ^ 7

\* C6: with a caller that only calls Sierpinski_gasket and finegrain, any two
\* calls of Sierpinski_gasket with the same order return equal gaskets,
\* whatever was called before, and every Sierpinski_gasket(0) returns
\* centers [(0, 0)] and radius 1.0.
C6_Deterministic ==
    /\ \A i \in GasketResults : \A j \in GasketResults :
          log[i].order.v = log[j].order.v => GasketEq(log[i].val, log[j].val)
    /\ \A i \in GasketResults :
          log[i].order.v = 0 => log[i].val = SeedGasket

C6_Witness ==
    /\ \E i \in GasketResults : \E j \in GasketResults : \E f \in FinegrainCalls :
          i < f /\ f < j /\ log[i].order.v = log[j].order.v
    /\ \E i \in GasketResults : \E f \in FinegrainCalls :
          f < i /\ log[i].order.v = 0

\* C7: a caller that modifies a gasket it was handed never changes what a
\* later call of Sierpinski_gasket returns: a later call with the same order
\* returns a gasket equal to the one the earlier call returned.
C7_ModificationIsolated ==
    \A i \in GasketResults : \A j \in GasketResults :
        (i < j /\ log[i].order.v = log[j].order.v)
        => GasketEq(log[j].val, log[i].val)

\* C8: no step of Sierpinski_gasket or finegrain changes a gasket that
\* exists: the argument of finegrain and the module-level seed keep their
\* centers and radius, and results are new objects.
C8_NoSideEffects ==
    [][/\ Len(heap') >= Len(heap)
       /\ \A r \in 1..Len(heap) : heap'[r] = heap[r]]_vars

C8_Witness ==
    /\ \E i \in FinegrainCalls : log[i].arg # InitialRef /\ Len(heap) > log[i].arg
    /\ \E i \in GasketResults : log[i].order.v >= 2

\* C9: for every non-negative integer n, Sierpinski_gasket(n) terminates and
\* returns a gasket after exactly n nested recursive calls, with the
\* arguments n-1, ..., 0, each a non-negative integer, and n applications of
\* finegrain; the base case is reached once, at order 0.
C9_CallsSoFar ==
    (cur.depth > 0 /\ IsNonNegativeInteger(cur.order)) =>
        /\ Len(cur.calls) <= cur.order.v
        /\ \A k \in 1..Len(cur.calls) :
              /\ cur.calls[k].v = cur.order.v - k
              /\ IsNonNegativeInteger(cur.calls[k])
        /\ cur.fgs <= Len(cur.calls)
        /\ ret.kind # "TypeError"
C9_CallsWhenDone ==
    \A i \in GasketCalls :
        IsNonNegativeInteger(log[i].order) =>
            /\ log[i].exc = "none"
            /\ Len(log[i].calls) = log[i].order.v
            /\ \A k \in 1..Len(log[i].calls) :
                  /\ log[i].calls[k].v = log[i].order.v - k
                  /\ IsNonNegativeInteger(log[i].calls[k])
            /\ log[i].fgs = log[i].order.v
            /\ log[i].depth = log[i].order.v + 1
            /\ Len(log[i].bases) = 1
            /\ log[i].bases[1].v = 0
C9_RecursionDepth ==
    /\ [](C9_CallsSoFar /\ C9_CallsWhenDone)
    /\ (stack # <<>> /\ IsNonNegativeInteger(cur.order))
          ~> (Idle /\ log # <<>> /\ log[Len(log)].exc = "none")

C9_Witness ==
    \E i \in GasketResults :
        log[i].order.v >= 2 /\ log[i].depth >= 3 /\ log[i].fgs >= 2

\* C10: the centers of every gasket Sierpinski_gasket returns are pairwise
\* distinct, and so are the centers finegrain returns for such a gasket.
PointValue(p) == <<p[1].a, p[1].b, p[1].e, p[2].a, p[2].b, p[2].e>>
Distinct(centers) ==
    Cardinality({PointValue(centers[k]) : k \in 1..Len(centers)}) = Len(centers)
C10_DistinctCenters ==
    /\ \A i \in GasketResults : Distinct(log[i].val.centers)
    /\ \A i \in FinegrainCalls : Distinct(log[i].val.centers)

C10_Witness ==
    /\ \E i \in GasketResults : Len(log[i].val.centers) >= 9
    /\ \E i \in FinegrainCalls : Len(log[i].val.centers) >= 9

====
